---- MODULE Spec2Model ----
(***************************************************************************)
(* Routing and capacity-reservation core of the childcare assistant.       *)
(*                                                                         *)
(*   Capacity Store   src/functioning_code.py  (table public."KBBEs")      *)
(*   Action Router    src/backend/agent.py     decide_sql_action           *)
(*   Sidebar form     src/app.py               pre_reg_form / reset button *)
(*                                                                         *)
(* Every SQL statement is one atomic step of the store; a Python function  *)
(* that issues two statements (reserve_place: SELECT, then UPDATE) is two  *)
(* steps, and other sessions may run between them.                         *)
(***************************************************************************)
EXTENDS Integers, Sequences, FiniteSets, TLC

\* ------------------------------------------------------------------------
\* Bounds of the model
\* ------------------------------------------------------------------------
MaxCap == 2
NumProcs == 2
MaxCalls == 2
MaxMsgs == 2

\* ------------------------------------------------------------------------
\* Values: Python None / SQL NULL, integers, and text (sequences of
\* one-character strings)
\* ------------------------------------------------------------------------
None == [t |-> "null"]

I(n) == [t |-> "int", n |-> n]

S(s) == [t |-> "str", s |-> s]

IsStr(x) == x.t = "str"

\* Python truthiness of an Optional[str] / Optional[int] value
Truthy(x) ==
    CASE x.t = "null" -> FALSE
      [] x.t = "str"  -> x.s # <<>>
      [] x.t = "int"  -> x.n # 0

Whitespace == {" ", "\t", "\n"}

RECURSIVE lstrip(_)
lstrip(s) ==
    IF s = <<>> THEN <<>>
    ELSE IF Head(s) \in Whitespace THEN lstrip(Tail(s)) ELSE s

RECURSIVE rstrip(_)
rstrip(s) ==
    IF s = <<>> THEN <<>>
    ELSE IF s[Len(s)] \in Whitespace THEN rstrip(SubSeq(s, 1, Len(s) - 1)) ELSE s

\* str.strip()
strip(s) == rstrip(lstrip(s))

DigitChars == <<"0", "1", "2", "3", "4", "5", "6", "7", "8", "9">>

DigitVal(c) == (CHOOSE i \in 1..10 : DigitChars[i] = c) - 1

\* int(x) for a text of decimal digits
RECURSIVE int(_)
int(s) ==
    IF s = <<>> THEN 0
    ELSE 10 * int(SubSeq(s, 1, Len(s) - 1)) + DigitVal(s[Len(s)])

\* Case folding of the letters that occur in the modelled city names
Upper == <<"L", "I", "N", "Z", "W", "E", "S">>

Lower == <<"l", "i", "n", "z", "w", "e", "s">>

lowerChar(c) ==
    IF \E i \in 1..Len(Upper) : Upper[i] = c
    THEN Lower[CHOOSE i \in 1..Len(Upper) : Upper[i] = c]
    ELSE c

\* SQL lower(text)
lower(s) == [i \in 1..Len(s) |-> lowerChar(s[i])]

Max(a, b) == IF a >= b THEN a ELSE b

\* ------------------------------------------------------------------------
\* The table public."KBBEs": one row per Kennzahl
\* ------------------------------------------------------------------------
Kennzahlen == {1, 2}

UnknownKennzahl == 9

KennzahlArgs == Kennzahlen \cup {UnknownKennzahl}

Linz == <<"L", "i", "n", "z">>

linz == <<"l", "i", "n", "z">>

WELS == <<"W", "E", "L", "S">>

wels == <<"w", "e", "l", "s">>

Ort(k) == IF k = 1 THEN Linz ELSE WELS

\* city arguments of reset_pre_registrations: absent, empty, or a name
CityArgs == {None, S(<<>>), S(linz), S(wels), S(<<"w", "e", "l">>)}

Procs == 1..NumProcs

VARIABLES
    db,         \* Kennzahl -> [ort, capacity_estimate, current_occupancy, pre_registrations]
    pc,         \* per session: position in the sidebar form / reserve_place
    kz,         \* per session: kennzahl argument of the running call
    free,       \* per session: local variable free (form rendering, reserve_place)
    ok,         \* per session: value returned by reserve_place
    db0,        \* the table when the sessions started
    calls,      \* number of reserve_place calls started so far
    succ,       \* Kennzahl -> number of reserve_place calls that returned True
    resets,     \* <<>>, or <<city>> for the argument of the latest reset_pre_registrations
    messages,   \* decide_sql_action: the conversation history it is given
    rpc,        \* decide_sql_action: "start", "oracle", "returned" or "raised"
    last_user,  \* decide_sql_action: local variable last_user
    resp,       \* decide_sql_action: what the routing oracle answered
    decision,   \* decide_sql_action: the value it returned
    oracleCalls, \* number of client.responses.create calls of the router
    oracleInput, \* decide_sql_action: the input of its latest client.responses.create
    text,       \* _clean_citations: the text given to the first application
    cleaned,    \* _clean_citations: the text returned by the latest application
    passes,     \* _clean_citations: number of applications so far
    query,      \* get_facilities_by_query: the query argument
    mode,       \* get_facilities_by_query: "blank", "plz" or "ort" (the SELECT that ran)
    rows,       \* get_facilities_by_query: the returned rows, as Kennzahlen in order
    tpc,        \* run_agent / test main: control position
    parts,      \* run_agent: sql_context_parts
    final_messages, \* run_agent: the history given to the generation step
    genCalls,   \* run_agent: number of calls of the generation step
    storeCalls, \* run_agent: number of Capacity Store calls of the turn
    storeUp,    \* whether psycopg.connect succeeds
    before,     \* test main: free places read before reserve_place
    after,      \* test main: free places read after reserve_place
    log         \* the reserve_place calls made one after another, with their arguments

storeVars == <<db, pc, kz, free, ok, db0, calls, succ, resets>>

routerVars == <<messages, rpc, last_user, resp, decision, oracleCalls, oracleInput>>

cleanVars == <<text, cleaned, passes>>

queryVars == <<query, mode, rows>>

turnVars == <<tpc, parts, final_messages, genCalls, storeCalls, storeUp, before, after>>

callVars == <<log>>

auxVars == <<cleanVars, queryVars, turnVars, callVars>>

vars == <<storeVars, routerVars, auxVars>>

\* ------------------------------------------------------------------------
\* get_free_places
\* ------------------------------------------------------------------------
to_int(x) ==
    IF x = None THEN 0
    ELSE IF IsStr(x)
         THEN (IF strip(x.s) = <<>> THEN 0 ELSE int(strip(x.s)))
         ELSE x.n

\* variant: return free_places without max(free_places, 0)
get_free_places_noclamp(d, kennzahl) ==
    IF kennzahl \notin DOMAIN d THEN None
    ELSE LET r == d[kennzahl]
         IN I(to_int(r.capacity_estimate) - to_int(r.current_occupancy)
                - to_int(r.pre_registrations))

\* variant: a row without capacity_estimate is reported like a missing row
get_free_places_nullrow(d, kennzahl) ==
    IF kennzahl \notin DOMAIN d \/ d[kennzahl].capacity_estimate = None THEN None
    ELSE LET r == d[kennzahl]
         IN I(Max(to_int(r.capacity_estimate) - to_int(r.current_occupancy)
                    - to_int(r.pre_registrations), 0))

\* variant: free places are capacity minus occupancy, pre-registrations ignored
get_free_places_nopre(d, kennzahl) ==
    IF kennzahl \notin DOMAIN d THEN None
    ELSE LET r == d[kennzahl]
         IN I(Max(to_int(r.capacity_estimate) - to_int(r.current_occupancy), 0))

get_free_places(d, kennzahl) ==
    IF kennzahl \notin DOMAIN d THEN None
    ELSE LET r == d[kennzahl]
             cap == to_int(r.capacity_estimate)
             occ == to_int(r.current_occupancy)
             pre == to_int(r.pre_registrations)
             free_places == cap - occ - pre
         IN I(Max(free_places, 0))

\* ------------------------------------------------------------------------
\* Initial table
\* ------------------------------------------------------------------------
CapValues == {None, S(<<>>), S(<<" ">>), S(<<" ", "1">>)} \cup {I(n) : n \in 0..MaxCap}

OccValues == {None, S(<<>>), I(0), I(1)}

PreValues == {None, S(<<" ">>), I(0), I(1)}

Row(k, c, o, p) ==
    [ort |-> Ort(k), capacity_estimate |-> c, current_occupancy |-> o,
     pre_registrations |-> p]

\* tables of the running system: facility 1 has free places, facility 2 is full
InitTables ==
    {[k \in Kennzahlen |->
        IF k = 1 THEN Row(1, c, None, p) ELSE Row(2, S(<<"1">>), I(0), I(1))] :
     c \in {I(1), I(MaxCap)}, p \in {None, I(0)}}

\* no session has started an operation yet
SessionsIdle ==
    /\ pc = [p \in Procs |-> "idle"]
    /\ kz = [p \in Procs |-> UnknownKennzahl]
    /\ free = [p \in Procs |-> None]
    /\ ok = [p \in Procs |-> FALSE]
    /\ calls = 0
    /\ succ = [k \in Kennzahlen |-> 0]
    /\ resets = <<>>

\* decide_sql_action has not been entered
RouterIdle ==
    /\ messages = <<>>
    /\ rpc = "start"
    /\ last_user = None
    /\ resp = None
    /\ decision = None
    /\ oracleCalls = 0
    /\ oracleInput = <<>>

\* _clean_citations has not been applied
CleanIdle ==
    /\ text = <<>>
    /\ cleaned = <<>>
    /\ passes = 0

\* get_facilities_by_query has not been called
QueryIdle ==
    /\ query = None
    /\ mode = "idle"
    /\ rows = <<>>

\* no turn of run_agent and no run of the reservation test has started
TurnIdle ==
    /\ tpc = "idle"
    /\ parts = <<>>
    /\ final_messages = <<>>
    /\ genCalls = 0
    /\ storeCalls = 0
    /\ storeUp = TRUE
    /\ before = None
    /\ after = None

Init ==
    /\ db \in InitTables
    /\ db0 = db
    /\ SessionsIdle
    /\ RouterIdle
    /\ CleanIdle
    /\ QueryIdle
    /\ TurnIdle
    /\ log = <<>>

\* ------------------------------------------------------------------------
\* Entry points of reserve_place
\* ------------------------------------------------------------------------
\* run_agent, reserve-place branch: reserve_place(kennzahl_int, ...)
ChatReserve(p, k) ==
    /\ pc[p] = "idle"
    /\ calls < MaxCalls
    /\ pc' = [pc EXCEPT ![p] = "call"]
    /\ kz' = [kz EXCEPT ![p] = k]
    /\ calls' = calls + 1
    /\ UNCHANGED <<db, free, ok, db0, succ, resets>>
    /\ UNCHANGED <<routerVars, auxVars>>

\* sidebar: the expander of a listed facility reads get_free_places and
\* shows the pre-registration form only when free places remain
SidebarRender(p, k) ==
    /\ pc[p] = "idle"
    /\ k \in DOMAIN db
    /\ LET f == get_free_places(db, k)
       IN IF Truthy(f) /\ f.n > 0
          THEN /\ pc' = [pc EXCEPT ![p] = "form"]
               /\ kz' = [kz EXCEPT ![p] = k]
          ELSE UNCHANGED <<pc, kz>>
    /\ UNCHANGED <<db, free, ok, db0, calls, succ, resets>>
    /\ UNCHANGED <<routerVars, auxVars>>

\* sidebar: submitted_pre, reserve_place(kennzahl, ...)
SidebarSubmit(p) ==
    /\ pc[p] = "form"
    /\ calls < MaxCalls
    /\ pc' = [pc EXCEPT ![p] = "call"]
    /\ calls' = calls + 1
    /\ UNCHANGED <<db, kz, free, ok, db0, succ, resets>>
    /\ UNCHANGED <<routerVars, auxVars>>

\* sidebar: the user leaves the form without submitting
SidebarLeave(p) ==
    /\ pc[p] = "form"
    /\ pc' = [pc EXCEPT ![p] = "idle"]
    /\ kz' = [kz EXCEPT ![p] = UnknownKennzahl]
    /\ UNCHANGED <<db, free, ok, db0, calls, succ, resets>>
    /\ UNCHANGED <<routerVars, auxVars>>

\* ------------------------------------------------------------------------
\* reserve_place
\* ------------------------------------------------------------------------
\* variant: the guard compares with < instead of <=
NoFreePlace_lt(f) == f = None \/ f.n < 0

\* variant: the guard is free <= 1
NoFreePlace_le1(f) == f = None \/ f.n <= 1

\* free = get_free_places(kennzahl); if free is None or free <= 0: return False
NoFreePlace(f) == f = None \/ f.n <= 0

reserve_place_check(p) ==
    /\ pc[p] = "call"
    /\ LET f == get_free_places(db, kz[p])
       IN /\ free' = [free EXCEPT ![p] = f]
          /\ IF NoFreePlace(f)
             THEN /\ pc' = [pc EXCEPT ![p] = "done"]
                  /\ ok' = [ok EXCEPT ![p] = FALSE]
             ELSE /\ pc' = [pc EXCEPT ![p] = "update"]
                  /\ UNCHANGED ok
    /\ UNCHANGED <<db, kz, db0, calls, succ, resets>>
    /\ UNCHANGED <<routerVars, auxVars>>

\* variant: SET pre_registrations = pre_registrations + 1 (NULL + 1 is NULL)
IncrementPre_nocoalesce(d, kennzahl) ==
    [k \in DOMAIN d |->
        IF k = kennzahl /\ d[k].pre_registrations # None
        THEN [d[k] EXCEPT !.pre_registrations = I(d[k].pre_registrations.n + 1)]
        ELSE d[k]]

\* variant: SET pre_registrations = COALESCE(pre_registrations, 0) + 2
IncrementPre_two(d, kennzahl) ==
    [k \in DOMAIN d |->
        IF k = kennzahl
        THEN [d[k] EXCEPT !.pre_registrations =
                 I((IF d[k].pre_registrations = None THEN 0
                    ELSE d[k].pre_registrations.n) + 2)]
        ELSE d[k]]

\* UPDATE ... SET pre_registrations = COALESCE(pre_registrations, 0) + 1
\* WHERE kennzahl = %s
IncrementPre(d, kennzahl) ==
    [k \in DOMAIN d |->
        IF k = kennzahl
        THEN [d[k] EXCEPT !.pre_registrations =
                 I((IF d[k].pre_registrations = None THEN 0
                    ELSE d[k].pre_registrations.n) + 1)]
        ELSE d[k]]

\* the UPDATE, conn.commit() and return True
reserve_place_update(p) ==
    /\ pc[p] = "update"
    /\ db' = IncrementPre(db, kz[p])
    /\ pc' = [pc EXCEPT ![p] = "done"]
    /\ ok' = [ok EXCEPT ![p] = TRUE]
    /\ succ' = [k \in Kennzahlen |-> IF k = kz[p] THEN succ[k] + 1 ELSE succ[k]]
    /\ UNCHANGED <<kz, free, db0, calls, resets>>
    /\ UNCHANGED <<routerVars, auxVars>>

\* the caller has used the returned value
Return(p) ==
    /\ pc[p] = "done"
    /\ pc' = [pc EXCEPT ![p] = "idle"]
    /\ kz' = [kz EXCEPT ![p] = UnknownKennzahl]
    /\ free' = [free EXCEPT ![p] = None]
    /\ ok' = [ok EXCEPT ![p] = FALSE]
    /\ UNCHANGED <<db, db0, calls, succ, resets>>
    /\ UNCHANGED <<routerVars, auxVars>>

\* ------------------------------------------------------------------------
\* reset_pre_registrations
\* ------------------------------------------------------------------------
\* variant: WHERE ort = %s (case-sensitive comparison)
ResetRows_casesensitive(d, city) ==
    [k \in DOMAIN d |->
        IF Truthy(city)
        THEN (IF d[k].ort = city.s
              THEN [d[k] EXCEPT !.pre_registrations = I(0)]
              ELSE d[k])
        ELSE [d[k] EXCEPT !.pre_registrations = I(0)]]

\* variant: the WHERE clause is always used, so an absent city matches no row
ResetRows_alwayswhere(d, city) ==
    [k \in DOMAIN d |->
        IF Truthy(city) /\ lower(d[k].ort) = lower(city.s)
        THEN [d[k] EXCEPT !.pre_registrations = I(0)]
        ELSE d[k]]

\* variant: the test is  if city is not None
ResetRows_isnotnone(d, city) ==
    [k \in DOMAIN d |->
        IF city # None
        THEN (IF lower(d[k].ort) = lower(city.s)
              THEN [d[k] EXCEPT !.pre_registrations = I(0)]
              ELSE d[k])
        ELSE [d[k] EXCEPT !.pre_registrations = I(0)]]

\* UPDATE ... SET pre_registrations = 0 [WHERE lower(ort) = lower(%s)]
ResetRows(d, city) ==
    [k \in DOMAIN d |->
        IF Truthy(city)
        THEN (IF lower(d[k].ort) = lower(city.s)
              THEN [d[k] EXCEPT !.pre_registrations = I(0)]
              ELSE d[k])
        ELSE [d[k] EXCEPT !.pre_registrations = I(0)]]

reset_pre_registrations(city) ==
    /\ db' = ResetRows(db, city)
    /\ resets' = <<city>>
    /\ UNCHANGED <<pc, kz, free, ok, db0, calls, succ>>
    /\ UNCHANGED <<routerVars, auxVars>>

\* ------------------------------------------------------------------------
\* run_agent, check-free-places branch: free = get_free_places(kennzahl_int)
\* ------------------------------------------------------------------------
CheckFreePlaces(p, k) ==
    /\ pc[p] = "idle"
    /\ pc' = [pc EXCEPT ![p] = "checked"]
    /\ kz' = [kz EXCEPT ![p] = k]
    /\ free' = [free EXCEPT ![p] = get_free_places(db, k)]
    /\ UNCHANGED <<db, ok, db0, calls, succ, resets>>
    /\ UNCHANGED <<routerVars, auxVars>>

\* the fragment has been rendered from free
CheckDone(p) ==
    /\ pc[p] = "checked"
    /\ pc' = [pc EXCEPT ![p] = "idle"]
    /\ kz' = [kz EXCEPT ![p] = UnknownKennzahl]
    /\ free' = [free EXCEPT ![p] = None]
    /\ UNCHANGED <<db, ok, db0, calls, succ, resets>>
    /\ UNCHANGED <<routerVars, auxVars>>

Next ==
    \/ \E p \in Procs, k \in KennzahlArgs : ChatReserve(p, k)
    \/ \E p \in Procs, k \in KennzahlArgs : SidebarRender(p, k)
    \/ \E p \in Procs : SidebarSubmit(p)
    \/ \E p \in Procs : SidebarLeave(p)
    \/ \E p \in Procs : reserve_place_check(p)
    \/ \E p \in Procs : reserve_place_update(p)
    \/ \E p \in Procs : Return(p)
    \/ \E c \in CityArgs : reset_pre_registrations(c)

Spec == Init /\ [][Next]_vars

\* reserve_place calls from the chat only, with no other writer; every
\* call runs in its own script run and waits for no other, so a step of a
\* call that can be taken is taken
NextCalls ==
    \/ \E p \in Procs, k \in KennzahlArgs : ChatReserve(p, k)
    \/ \E p \in Procs : reserve_place_check(p)
    \/ \E p \in Procs : reserve_place_update(p)
    \/ \E p \in Procs : Return(p)

SpecFair ==
    /\ Init
    /\ [][NextCalls]_vars
    /\ \A p \in Procs : WF_vars(reserve_place_check(p))
    /\ \A p \in Procs : WF_vars(reserve_place_update(p))

\* ------------------------------------------------------------------------
\* get_free_places as a function of the row: every combination of ledger
\* values, facility 2 present or not, and reads only
\* ------------------------------------------------------------------------
LedgerTables ==
    {[k \in D |->
        IF k = 1 THEN Row(1, c, o, p) ELSE Row(2, S(<<"1">>), I(0), I(1))] :
     c \in CapValues, o \in OccValues, p \in PreValues, D \in {{1}, {1, 2}}}

InitLedger ==
    /\ db \in LedgerTables
    /\ db0 = db
    /\ SessionsIdle
    /\ RouterIdle
    /\ CleanIdle
    /\ QueryIdle
    /\ TurnIdle
    /\ log = <<>>

NextLedger ==
    \/ \E p \in Procs, k \in KennzahlArgs : CheckFreePlaces(p, k)
    \/ \E p \in Procs : CheckDone(p)

SpecLedger == InitLedger /\ [][NextLedger]_vars

\* ------------------------------------------------------------------------
\* decide_sql_action (Action Router)
\* ------------------------------------------------------------------------
\* A text of the oracle is a sequence of tokens:
\*   "{" "}" ","   punctuation of a JSON object
\*   "A"           the member  "action": "list_facilities"
\*   "C"           the member  "city": "Wels"
\*   "w"           a word of prose
\*   "5" "null" "str" "straction" "list" "listaction"
\*                 a JSON number, null, a string without / with the text
\*                 action in it, a list without / with the element "action"
Roles == {"system", "user", "assistant"}

Contents == {S(<<>>), S(<<"a">>), S(<<"b">>)}

Msg(r, c) == [role |-> r, content |-> c]

Messages == {Msg(r, c) : r \in Roles, c \in Contents}

RECURSIVE SeqsUpTo(_, _)
SeqsUpTo(X, n) ==
    IF n = 0 THEN {<<>>}
    ELSE LET shorter == SeqsUpTo(X, n - 1)
         IN shorter \cup {Append(h, x) : h \in shorter, x \in X}

Histories == SeqsUpTo(Messages, MaxMsgs)

Members == {"A", "C"}

Scalars == {"5", "null", "str", "straction", "list", "listaction"}

RawTexts ==
    {<<>>, <<"w">>, <<"w", "w">>,
     <<"{", "A", "}">>, <<"{", "C", "}">>, <<"{", "}">>,
     <<"{", "A", ",", "C", "}">>,
     <<"w", "{", "A", ",", "C", "}", "w">>,
     <<"{", "w", "}">>, <<"{", "A", ",", "}">>, <<"w", "{", "A">>, <<"}", "w", "{">>,
     <<"{", "A", "}", "w", "{", "C", "}">>,
     <<"5">>, <<"null">>, <<"str">>, <<"straction">>, <<"list">>, <<"listaction">>}

\* what client.responses.create can give: an exception, or a response with
\* output_text and, behind output[0].content[0].text, a text or nothing
OracleFailure == [fail |-> TRUE]

Response(ot, first) == [fail |-> FALSE, output_text |-> ot, first |-> first]

Responses ==
    {OracleFailure}
    \cup {Response(S(t), None) : t \in RawTexts}
    \cup {Response(None, f) : f \in {None, S(<<>>), S(<<"{", "A", "}">>), S(<<"5">>)}}

NoAction == [action |-> "none"]

\* variant: the first user message instead of the most recent one
RECURSIVE LastUser_first(_)
LastUser_first(msgs) ==
    IF msgs = <<>> THEN None
    ELSE IF Head(msgs).role = "user" THEN Head(msgs).content
         ELSE LastUser_first(Tail(msgs))

\* for m in reversed(messages): if m["role"] == "user": last_user = m["content"]; break
RECURSIVE LastUser(_)
LastUser(msgs) ==
    IF msgs = <<>> THEN None
    ELSE IF msgs[Len(msgs)].role = "user" THEN msgs[Len(msgs)].content
         ELSE LastUser(SubSeq(msgs, 1, Len(msgs) - 1))

system_prompt == S(<<"Du bist ein Routing-Assistent">>)

\* variant: the whole history follows the system prompt
RouterInput_history(msgs, lu) == <<Msg("system", system_prompt)>> \o msgs

\* input=[{"role": "system", ...}, {"role": "user", "content": last_user}]
RouterInput(msgs, lu) == <<Msg("system", system_prompt), Msg("user", lu)>>

\* the members of an object body  m , m , ... , m  (FALSE if it is not one)
RECURSIVE IsMemberList(_)
IsMemberList(toks) ==
    IF Len(toks) = 1 THEN toks[1] \in Members
    ELSE /\ Len(toks) >= 3
         /\ toks[1] \in Members
         /\ toks[2] = ","
         /\ IsMemberList(SubSeq(toks, 3, Len(toks)))

MemberSet(toks) == {toks[i] : i \in 1..Len(toks)} \cap Members

\* the Python value of a JSON object with the given members
Dict(ms) ==
    CASE ms = {}         -> [t |-> "dict"]
      [] ms = {"A"}      -> [action |-> "list_facilities"]
      [] ms = {"C"}      -> [city |-> "Wels"]
      [] ms = {"A", "C"} -> [action |-> "list_facilities", city |-> "Wels"]

\* json.loads: [ok |-> FALSE] stands for json.JSONDecodeError
JSONDecodeError == [ok |-> FALSE]

Loaded(v) == [ok |-> TRUE, val |-> v]

json_loads(toks) ==
    IF Len(toks) = 1 /\ toks[1] \in Scalars
    THEN Loaded([t |-> toks[1]])
    ELSE IF Len(toks) >= 2 /\ toks[1] = "{" /\ toks[Len(toks)] = "}"
         THEN LET body == SubSeq(toks, 2, Len(toks) - 1)
              IN IF body = <<>> THEN Loaded(Dict({}))
                 ELSE IF IsMemberList(body) THEN Loaded(Dict(MemberSet(body)))
                 ELSE JSONDecodeError
         ELSE JSONDecodeError

\* re.search(r"\{.*\}", raw, re.DOTALL): from the first "{" to the last "}"
Positions(toks, c) == {i \in 1..Len(toks) : toks[i] = c}

MinOf(X) == CHOOSE i \in X : \A j \in X : i <= j

MaxOf(X) == CHOOSE i \in X : \A j \in X : i >= j

re_search(raw) ==
    LET opens == Positions(raw, "{")
    IN IF opens = {} THEN None
       ELSE LET closes == {i \in Positions(raw, "}") : i > MinOf(opens)}
            IN IF closes = {} THEN None
               ELSE S(SubSeq(raw, MinOf(opens), MaxOf(closes)))

Returned(v) == [raised |-> FALSE, value |-> v]

Raised == [raised |-> TRUE]

\* if "action" not in data: data["action"] = "none"; return data
IsDict(v) == "t" \notin DOMAIN v \/ v.t = "dict"

EnsureAction(data) ==
    IF IsDict(data)
    THEN IF "action" \in DOMAIN data THEN Returned(data)
         ELSE IF "city" \in DOMAIN data
              THEN Returned([action |-> "none", city |-> data.city])
              ELSE Returned(NoAction)
    ELSE CASE data.t \in {"straction", "listaction"} -> Returned(data)
           [] data.t \in {"str", "list"}             -> Raised
           [] OTHER                                  -> Raised

\* the text taken from the response, then the parsing of it
ParseRaw(raw) ==
    LET whole == json_loads(raw)
    IN IF whole.ok THEN EnsureAction(whole.val)
       ELSE LET match == re_search(raw)
            IN IF match = None THEN Returned(NoAction)
               ELSE LET part == json_loads(match.s)
                    IN IF part.ok THEN EnsureAction(part.val)
                       ELSE Returned(NoAction)

AfterOracle(r) ==
    IF Truthy(r.output_text) THEN ParseRaw(r.output_text.s)
    ELSE IF r.first = None THEN Returned(NoAction)
         ELSE ParseRaw(r.first.s)

\* lines 79-87: find last_user; without one return {"action": "none"}
decide_find_last_user ==
    /\ rpc = "start"
    /\ last_user' = LastUser(messages)
    /\ IF ~Truthy(LastUser(messages))
       THEN /\ rpc' = "returned"
            /\ decision' = NoAction
       ELSE /\ rpc' = "oracle"
            /\ UNCHANGED decision
    /\ UNCHANGED <<messages, resp, oracleCalls, oracleInput>>
    /\ UNCHANGED <<storeVars, auxVars>>

\* lines 113-119: client.responses.create raises; nothing catches it
decide_oracle_fails ==
    /\ rpc = "oracle"
    /\ oracleCalls' = oracleCalls + 1
    /\ oracleInput' = RouterInput(messages, last_user)
    /\ resp' = OracleFailure
    /\ rpc' = "raised"
    /\ UNCHANGED <<messages, last_user, decision>>
    /\ UNCHANGED <<storeVars, auxVars>>

\* lines 113-145: the oracle answers and the answer is parsed
decide_oracle_answers(r) ==
    /\ rpc = "oracle"
    /\ ~r.fail
    /\ oracleCalls' = oracleCalls + 1
    /\ oracleInput' = RouterInput(messages, last_user)
    /\ resp' = r
    /\ LET out == AfterOracle(r)
       IN IF out.raised
          THEN /\ rpc' = "raised"
               /\ UNCHANGED decision
          ELSE /\ rpc' = "returned"
               /\ decision' = out.value
    /\ UNCHANGED <<messages, last_user>>
    /\ UNCHANGED <<storeVars, auxVars>>

InitRouter ==
    /\ db \in {d \in InitTables : d[1].capacity_estimate = I(1) /\ d[1].pre_registrations = None}
    /\ db0 = db
    /\ SessionsIdle
    /\ messages \in Histories
    /\ rpc = "start"
    /\ last_user = None
    /\ resp = None
    /\ decision = None
    /\ oracleCalls = 0
    /\ oracleInput = <<>>
    /\ CleanIdle
    /\ QueryIdle
    /\ TurnIdle
    /\ log = <<>>

NextRouter ==
    \/ decide_find_last_user
    \/ decide_oracle_fails
    \/ \E r \in Responses : decide_oracle_answers(r)

SpecRouter == InitRouter /\ [][NextRouter]_vars

\* ------------------------------------------------------------------------
\* _clean_citations (Response Assembler)
\* ------------------------------------------------------------------------
\* A text is a sequence of pieces; the characters of a text are those of
\* its pieces in order.  No piece is part of another and no concatenation
\* of other pieces contains "turn", "file" or "cite", so a match of one of
\* the regular expressions always ends at piece borders.
\*   "turn" "file" "cite"   the words of the citation markers
\*   "1"                    a decimal digit
\*   " " "\n"               a space, a line break
\*   "P"                    a private-use or replacement character
\*   "x"                    any other character
Pieces == {"turn", "file", "cite", "1", " ", "\n", "P", "x"}

SpacePieces == {" ", "\n"}

MaxTextLen == 4

Texts == SeqsUpTo(Pieces, MaxTextLen)

\* .*?(?=\s|$): the pieces up to the next white space or the end
RECURSIVE DropNonSpace(_)
DropNonSpace(toks) ==
    IF toks = <<>> \/ Head(toks) \in SpacePieces THEN toks
    ELSE DropNonSpace(Tail(toks))

\* re.sub(r"filecite.*?(?=\s|$)", "", text)
RECURSIVE RemoveFilecite(_)
RemoveFilecite(toks) ==
    IF toks = <<>> THEN <<>>
    ELSE IF Len(toks) >= 2 /\ toks[1] = "file" /\ toks[2] = "cite"
         THEN RemoveFilecite(DropNonSpace(SubSeq(toks, 3, Len(toks))))
         ELSE <<Head(toks)>> \o RemoveFilecite(Tail(toks))

\* \d+ : the number of digits at the start of toks
RECURSIVE Digits(_)
Digits(toks) ==
    IF toks = <<>> \/ Head(toks) # "1" THEN 0 ELSE 1 + Digits(Tail(toks))

\* length of the match of turn\d+file\d+ at the start of toks, 0 if none
TurnMarkerLen(toks) ==
    IF toks = <<>> \/ Head(toks) # "turn" THEN 0
    ELSE LET d1 == Digits(Tail(toks))
             rest == SubSeq(toks, d1 + 2, Len(toks))
         IN IF d1 = 0 \/ rest = <<>> \/ Head(rest) # "file" THEN 0
            ELSE LET d2 == Digits(Tail(rest))
                 IN IF d2 = 0 THEN 0 ELSE d1 + d2 + 2

\* re.sub(r"turn\d+file\d+", "", text)
RECURSIVE RemoveTurnMarkers(_)
RemoveTurnMarkers(toks) ==
    IF toks = <<>> THEN <<>>
    ELSE IF TurnMarkerLen(toks) > 0
         THEN RemoveTurnMarkers(SubSeq(toks, TurnMarkerLen(toks) + 1, Len(toks)))
         ELSE <<Head(toks)>> \o RemoveTurnMarkers(Tail(toks))

is_bad_char(ch) == ch = "P"

\* "".join(ch for ch in text if not is_bad_char(ch))
RECURSIVE RemoveBadChars(_)
RemoveBadChars(toks) ==
    IF toks = <<>> THEN <<>>
    ELSE IF is_bad_char(Head(toks)) THEN RemoveBadChars(Tail(toks))
         ELSE <<Head(toks)>> \o RemoveBadChars(Tail(toks))

\* re.sub(r"[ ]{2,}", " ", text)
RECURSIVE CollapseSpaces(_)
CollapseSpaces(toks) ==
    IF toks = <<>> THEN <<>>
    ELSE IF Len(toks) >= 2 /\ toks[1] = " " /\ toks[2] = " "
         THEN CollapseSpaces(Tail(toks))
         ELSE <<Head(toks)>> \o CollapseSpaces(Tail(toks))

\* text.splitlines(): the lines without their line breaks; a line break at
\* the very end starts no further line
RECURSIVE splitlines(_)
splitlines(toks) ==
    IF toks = <<>> THEN <<>>
    ELSE LET breaks == Positions(toks, "\n")
         IN IF breaks = {} THEN <<toks>>
            ELSE <<SubSeq(toks, 1, MinOf(breaks) - 1)>>
                 \o splitlines(SubSeq(toks, MinOf(breaks) + 1, Len(toks)))

\* "\n".join(lines)
RECURSIVE join(_)
join(lines) ==
    IF lines = <<>> THEN <<>>
    ELSE IF Len(lines) = 1 THEN lines[1]
         ELSE lines[1] \o <<"\n">> \o join(Tail(lines))

RstripLines(toks) ==
    LET lines == splitlines(toks)
    IN join([i \in 1..Len(lines) |-> rstrip(lines[i])])

_clean_citations(t) ==
    strip(RstripLines(CollapseSpaces(RemoveBadChars(RemoveTurnMarkers(RemoveFilecite(t))))))

\* response text -> _clean_citations(raw)
CleanOnce ==
    /\ passes = 0
    /\ cleaned' = _clean_citations(text)
    /\ passes' = 1
    /\ UNCHANGED <<text, queryVars, turnVars, storeVars, routerVars, callVars>>

\* the cleaned text is cleaned again
CleanAgain ==
    /\ passes = 1
    /\ cleaned' = _clean_citations(cleaned)
    /\ passes' = 2
    /\ UNCHANGED <<text, queryVars, turnVars, storeVars, routerVars, callVars>>

InitClean ==
    /\ db \in {d \in InitTables : d[1].capacity_estimate = I(1) /\ d[1].pre_registrations = None}
    /\ db0 = db
    /\ SessionsIdle
    /\ RouterIdle
    /\ QueryIdle
    /\ TurnIdle
    /\ log = <<>>
    /\ text \in Texts
    /\ cleaned = text
    /\ passes = 0

NextClean ==
    \/ CleanOnce
    \/ CleanAgain

SpecClean == InitClean /\ [][NextClean]_vars

\* ------------------------------------------------------------------------
\* get_facilities_by_query
\* ------------------------------------------------------------------------
MaxQueryLen == 3

QueryChars == {"4", "0", " ", "l", "L", "i", "n", "_", "%"}

Queries == {None} \cup {S(t) : t \in SeqsUpTo(QueryChars, MaxQueryLen)}

Enns == <<"E", "n", "n", "s">>

Wels == <<"W", "e", "l", "s">>

\* the rows of the table that the searches run on
QueryTable ==
    [k \in 1..4 |->
        [ort  |-> CASE k = 1 -> Linz [] k = 2 -> Linz [] k = 3 -> Wels [] k = 4 -> Enns,
         plz  |-> CASE k = 1 -> I(40) [] k = 2 -> I(40) [] k = 3 -> I(44) [] k = 4 -> I(4),
         name |-> CASE k = 1 -> <<"B">> [] k = 2 -> <<"A">> [] k = 3 -> <<"A">> [] k = 4 -> <<"C">>,
         capacity_estimate |-> I(1), current_occupancy |-> None,
         pre_registrations |-> None]]

\* plz::text
RECURSIVE int_to_text(_)
int_to_text(n) ==
    IF n < 10 THEN <<DigitChars[n + 1]>>
    ELSE int_to_text(n \div 10) \o <<DigitChars[(n % 10) + 1]>>

\* q.replace(" ", "")
RECURSIVE RemoveSpaces(_)
RemoveSpaces(t) ==
    IF t = <<>> THEN <<>>
    ELSE IF Head(t) = " " THEN RemoveSpaces(Tail(t))
         ELSE <<Head(t)>> \o RemoveSpaces(Tail(t))

\* str.isdigit()
isdigit(t) ==
    t # <<>> /\ \A i \in 1..Len(t) : \E d \in 1..10 : DigitChars[d] = t[i]

\* s ILIKE pattern: % is any text, _ any one character, letters match
\* without regard to case
RECURSIVE ILike(_, _)
ILike(t, pattern) ==
    IF pattern = <<>> THEN t = <<>>
    ELSE IF Head(pattern) = "%"
         THEN ILike(t, Tail(pattern)) \/ (t # <<>> /\ ILike(Tail(t), pattern))
         ELSE /\ t # <<>>
              /\ Head(pattern) = "_" \/ lowerChar(Head(pattern)) = lowerChar(Head(t))
              /\ ILike(Tail(t), Tail(pattern))

\* ORDER BY ort, name: texts compared character by character
CharOrder == <<" ", "A", "B", "C", "E", "e", "I", "i", "L", "l", "N", "n", "S", "s", "W", "w", "Z", "z">>

CharRank(c) == CHOOSE i \in 1..Len(CharOrder) : CharOrder[i] = c

RECURSIVE TextLess(_, _)
TextLess(a, b) ==
    IF b = <<>> THEN FALSE
    ELSE IF a = <<>> THEN TRUE
    ELSE IF Head(a) = Head(b) THEN TextLess(Tail(a), Tail(b))
    ELSE CharRank(Head(a)) < CharRank(Head(b))

RowBefore(d, j, k) ==
    \/ TextLess(d[j].ort, d[k].ort)
    \/ d[j].ort = d[k].ort /\ TextLess(d[j].name, d[k].name)

RECURSIVE OrderByOrtName(_, _)
OrderByOrtName(d, ks) ==
    IF ks = {} THEN <<>>
    ELSE LET first == CHOOSE j \in ks : \A k \in ks \ {j} : ~RowBefore(d, k, j)
         IN <<first>> \o OrderByOrtName(d, ks \ {first})

\* WHERE plz::text = %s
SelectByPlz(d, q) == {k \in DOMAIN d : int_to_text(d[k].plz.n) = q}

\* WHERE lower(ort) = lower(%s) OR ort ILIKE %s, with like = f"%{q}%"
SelectByOrt(d, q) ==
    {k \in DOMAIN d :
        \/ lower(d[k].ort) = lower(q)
        \/ ILike(d[k].ort, <<"%">> \o q \o <<"%">>)}

\* q = (query or "").strip()
Trimmed(qu) == IF Truthy(qu) THEN strip(qu.s) ELSE <<>>

QueryMode(qu) ==
    IF Trimmed(qu) = <<>> THEN "blank"
    ELSE IF isdigit(RemoveSpaces(Trimmed(qu))) THEN "plz"
    ELSE "ort"

get_facilities_by_query(d, qu) ==
    CASE QueryMode(qu) = "blank" -> <<>>
      [] QueryMode(qu) = "plz"   -> OrderByOrtName(d, SelectByPlz(d, Trimmed(qu)))
      [] QueryMode(qu) = "ort"   -> OrderByOrtName(d, SelectByOrt(d, Trimmed(qu)))

\* sidebar search / run_agent list branch: facilities = get_facilities_by_query(city)
Search ==
    /\ mode = "idle"
    /\ mode' = QueryMode(query)
    /\ rows' = get_facilities_by_query(db, query)
    /\ UNCHANGED <<query, cleanVars, turnVars, storeVars, routerVars, callVars>>

InitQuery ==
    /\ db = QueryTable
    /\ db0 = db
    /\ SessionsIdle
    /\ RouterIdle
    /\ CleanIdle
    /\ TurnIdle
    /\ log = <<>>
    /\ query \in Queries
    /\ mode = "idle"
    /\ rows = <<>>

NextQuery == Search

SpecQuery == InitQuery /\ [][NextQuery]_vars

\* ------------------------------------------------------------------------
\* test_reserve.py, main: read the free places, reserve, read them again,
\* with nothing else running
\* ------------------------------------------------------------------------
TestTables ==
    {[k \in D |->
        IF k = 1 THEN Row(1, c, o, p) ELSE Row(2, S(<<"1">>), I(0), I(1))] :
     c \in {None, S(<<" ", "1">>)} \cup {I(n) : n \in 0..MaxCap},
     o \in OccValues, p \in {None, I(0), I(1)}, D \in {{1}, {1, 2}}}

\* print(get_free_places(kennzahl)); ok = reserve_place(kennzahl, ...)
test_read_before(k) ==
    /\ tpc = "idle"
    /\ before' = get_free_places(db, k)
    /\ tpc' = "reserve"
    /\ pc' = [pc EXCEPT ![1] = "call"]
    /\ kz' = [kz EXCEPT ![1] = k]
    /\ calls' = calls + 1
    /\ UNCHANGED <<db, free, ok, db0, succ, resets>>
    /\ UNCHANGED <<parts, final_messages, genCalls, storeCalls, storeUp, after>>
    /\ UNCHANGED <<routerVars, cleanVars, queryVars, callVars>>

\* print(ok); print(get_free_places(kennzahl))
test_read_after ==
    /\ tpc = "reserve"
    /\ pc[1] = "done"
    /\ after' = get_free_places(db, kz[1])
    /\ tpc' = "end"
    /\ UNCHANGED <<parts, final_messages, genCalls, storeCalls, storeUp, before>>
    /\ UNCHANGED <<storeVars, routerVars, cleanVars, queryVars, callVars>>

InitTest ==
    /\ db \in TestTables
    /\ db0 = db
    /\ SessionsIdle
    /\ RouterIdle
    /\ CleanIdle
    /\ QueryIdle
    /\ TurnIdle
    /\ log = <<>>

NextTest ==
    \/ \E k \in KennzahlArgs : test_read_before(k)
    \/ reserve_place_check(1)
    \/ reserve_place_update(1)
    \/ test_read_after

SpecTest == InitTest /\ [][NextTest]_vars

\* ------------------------------------------------------------------------
\* run_agent: one chat turn of one session
\* ------------------------------------------------------------------------
\* a key that the decision does not have
Absent == [t |-> "absent"]

DecisionKeys ==
    {"action", "city", "kennzahl", "parent_name", "parent_email", "child_name"}

\* the dict with the given members, keys with the value Absent left out
TurnDict(a, c, k, pn, pe, cn) ==
    LET all == [action |-> a, city |-> c, kennzahl |-> k, parent_name |-> pn,
                parent_email |-> pe, child_name |-> cn]
        keys == {x \in DecisionKeys \ {"action"} : all[x] # Absent}
                    \cup (IF a = "absent" THEN {} ELSE {"action"})
    IN [key \in keys |-> all[key]]

TurnActions ==
    {"absent", "none", "list_facilities", "check_free_places", "reserve_place",
     "cancel_place"}

TurnCities == {Absent, S(<<>>), S(<<" ">>), S(linz)}

TurnKennzahlen ==
    {Absent, I(1), I(2), I(UnknownKennzahl), S(<<" ", "1">>), S(<<"x">>)}

\* the decisions that decide_sql_action hands to run_agent
Decisions ==
    {TurnDict(a, c, k, pn, pe, cn) :
        a \in TurnActions, c \in TurnCities, k \in TurnKennzahlen,
        pn \in {Absent, S(<<>>), S(<<"P">>)}, pe \in {Absent, S(<<"m">>)},
        cn \in {Absent, S(<<"c">>)}}

\* st.session_state.messages after the user's input has been appended
TurnHistories ==
    {<<Msg("user", S(<<"a">>))>>,
     <<Msg("user", S(<<"a">>)), Msg("assistant", S(<<"b">>)), Msg("user", S(<<"b">>))>>}

\* the tables of the running system, with the columns the chat turn reads
TurnTables ==
    {[k \in DOMAIN d |->
        [ort |-> d[k].ort, plz |-> I(40 + k), name |-> <<"K", DigitChars[k + 1]>>,
         capacity_estimate |-> d[k].capacity_estimate,
         current_occupancy |-> d[k].current_occupancy,
         pre_registrations |-> d[k].pre_registrations]] : d \in InitTables}

\* dict.get(key, default)
get(d, key, default) == IF key \in DOMAIN d THEN d[key] ELSE default

\* int(kennzahl): [ok |-> FALSE] stands for ValueError
ValueError == [ok |-> FALSE]

kennzahl_int(v) ==
    IF IsStr(v)
    THEN (IF isdigit(strip(v.s)) THEN [ok |-> TRUE, n |-> int(strip(v.s))]
          ELSE ValueError)
    ELSE [ok |-> TRUE, n |-> v.n]

\* variant: the list branch does not test the city
branch_nocity(d) ==
    LET action == get(d, "action", "none")
        kennzahl == get(d, "kennzahl", None)
    IN IF action = "list_facilities" THEN "list"
       ELSE IF action = "check_free_places" /\ kennzahl # None THEN "check"
       ELSE IF /\ action = "reserve_place"
               /\ kennzahl # None
               /\ Truthy(get(d, "parent_name", None))
               /\ Truthy(get(d, "parent_email", None))
               /\ Truthy(get(d, "child_name", None))
            THEN "reserve"
       ELSE "none"

\* variant: the reserve branch comes first and does not test the action
branch_reservefirst(d) ==
    LET action == get(d, "action", "none")
        kennzahl == get(d, "kennzahl", None)
    IN IF /\ kennzahl # None
          /\ Truthy(get(d, "parent_name", None))
          /\ Truthy(get(d, "parent_email", None))
          /\ Truthy(get(d, "child_name", None))
       THEN "reserve"
       ELSE IF action = "list_facilities" /\ Truthy(get(d, "city", None)) THEN "list"
       ELSE IF action = "check_free_places" /\ kennzahl # None THEN "check"
       ELSE "none"

\* the if / elif chain over action and the slots
branch(d) ==
    LET action == get(d, "action", "none")
        kennzahl == get(d, "kennzahl", None)
    IN IF action = "list_facilities" /\ Truthy(get(d, "city", None)) THEN "list"
       ELSE IF action = "check_free_places" /\ kennzahl # None THEN "check"
       ELSE IF /\ action = "reserve_place"
               /\ kennzahl # None
               /\ Truthy(get(d, "parent_name", None))
               /\ Truthy(get(d, "parent_email", None))
               /\ Truthy(get(d, "child_name", None))
            THEN "reserve"
       ELSE "none"

get_facility_by_kennzahl(d, kennzahl) ==
    IF kennzahl \in DOMAIN d THEN d[kennzahl] ELSE None

\* f"Einrichtung mit Kennzahl {kennzahl_int}"
Fallback(k) == [t |-> "fallback", kennzahl |-> I(k)]

\* name = fac.get("name", ...) if fac else f"Einrichtung mit Kennzahl ..."
FacilityName(fac, k) == IF fac # None THEN S(fac.name) ELSE Fallback(k)

format_facilities(d, rs, city) ==
    IF rs = <<>> THEN [kind |-> "no_facilities_found", city |-> city]
    ELSE [kind |-> "facilities_found", city |-> city,
          names |-> [i \in 1..Len(rs) |-> d[rs[i]].name]]

\* variant: the test is free >= 0
CheckFragment_ge(name, k, f) ==
    IF f = None THEN [kind |-> "no_capacity_data", name |-> name, kennzahl |-> k]
    ELSE IF f.n >= 0
         THEN [kind |-> "places_available", name |-> name, kennzahl |-> k,
               free |-> f.n]
         ELSE [kind |-> "no_places", name |-> name, kennzahl |-> k]

\* the three sentences of the check-free-places branch
CheckFragment(name, k, f) ==
    IF f = None THEN [kind |-> "no_capacity_data", name |-> name, kennzahl |-> k]
    ELSE IF f.n > 0
         THEN [kind |-> "places_available", name |-> name, kennzahl |-> k,
               free |-> f.n]
         ELSE [kind |-> "no_places", name |-> name, kennzahl |-> k]

\* variant: the confirmation is rendered whatever reserve_place returned
ReserveFragment_alwaysstored(okv, child_name, name, k) ==
    [kind |-> "stored", child |-> child_name, name |-> name, kennzahl |-> k,
     disclaimer |-> TRUE]

\* the two sentences of the reserve-place branch
ReserveFragment(okv, child_name, name, k) ==
    IF okv
    THEN [kind |-> "stored", child |-> child_name, name |-> name, kennzahl |-> k,
          disclaimer |-> TRUE]
    ELSE [kind |-> "not_stored", name |-> name, kennzahl |-> k]

\* sql_action = decide_sql_action(messages) and the six .get calls
run_agent_decide(h, d) ==
    /\ tpc = "idle"
    /\ messages' = h
    /\ decision' = d
    /\ db0' = db
    /\ tpc' = "branch"
    /\ oracleCalls' = oracleCalls + 1
    /\ oracleInput' = RouterInput(h, LastUser(h))
    /\ UNCHANGED <<db, pc, kz, free, ok, calls, succ, resets>>
    /\ UNCHANGED <<rpc, last_user, resp>>
    /\ UNCHANGED <<parts, final_messages, genCalls, storeCalls, storeUp, before, after>>
    /\ UNCHANGED <<cleanVars, queryVars, callVars>>

\* decide_sql_action raises: the routing oracle could not be reached
run_agent_oracle_raises(h) ==
    /\ tpc = "idle"
    /\ messages' = h
    /\ tpc' = "OracleError"
    /\ oracleCalls' = oracleCalls + 1
    /\ oracleInput' = RouterInput(h, LastUser(h))
    /\ UNCHANGED <<rpc, last_user, resp, decision>>
    /\ UNCHANGED <<parts, final_messages, genCalls, storeCalls, storeUp, before, after>>
    /\ UNCHANGED <<storeVars, cleanVars, queryVars, callVars>>

\* facilities = get_facilities_by_query(city); format_facilities(...)
run_agent_list ==
    /\ tpc = "branch"
    /\ branch(decision) = "list"
    /\ LET city == get(decision, "city", None)
       IN /\ query' = city
          /\ mode' = QueryMode(city)
          /\ rows' = get_facilities_by_query(db, city)
          /\ parts' = Append(parts, format_facilities(db, rows', city))
    /\ storeCalls' = storeCalls + 1
    /\ tpc' = "assemble"
    /\ UNCHANGED <<final_messages, genCalls, storeUp, before, after>>
    /\ UNCHANGED <<storeVars, routerVars, cleanVars, callVars>>

\* kennzahl_int = int(kennzahl) raises ValueError
run_agent_int_raises ==
    /\ tpc = "branch"
    /\ branch(decision) \in {"check", "reserve"}
    /\ ~kennzahl_int(decision.kennzahl).ok
    /\ tpc' = "ValueError"
    /\ UNCHANGED <<parts, final_messages, genCalls, storeCalls, storeUp, before, after>>
    /\ UNCHANGED <<storeVars, routerVars, cleanVars, queryVars, callVars>>

\* fac = get_facility_by_kennzahl(...); free = get_free_places(...); txt
run_agent_check ==
    /\ tpc = "branch"
    /\ branch(decision) = "check"
    /\ kennzahl_int(decision.kennzahl).ok
    /\ LET k == kennzahl_int(decision.kennzahl).n
           fac == get_facility_by_kennzahl(db, k)
           f == get_free_places(db, k)
       IN parts' = Append(parts, CheckFragment(FacilityName(fac, k), k, f))
    /\ storeCalls' = storeCalls + 2
    /\ tpc' = "assemble"
    /\ UNCHANGED <<final_messages, genCalls, storeUp, before, after>>
    /\ UNCHANGED <<storeVars, routerVars, cleanVars, queryVars, callVars>>

\* fac = get_facility_by_kennzahl(...); ok = reserve_place(kennzahl_int, ...)
run_agent_reserve ==
    /\ tpc = "branch"
    /\ branch(decision) = "reserve"
    /\ kennzahl_int(decision.kennzahl).ok
    /\ calls < MaxCalls
    /\ pc' = [pc EXCEPT ![1] = "call"]
    /\ kz' = [kz EXCEPT ![1] = kennzahl_int(decision.kennzahl).n]
    /\ calls' = calls + 1
    /\ storeCalls' = storeCalls + 2
    /\ tpc' = "reserving"
    /\ UNCHANGED <<db, free, ok, db0, succ, resets>>
    /\ UNCHANGED <<parts, final_messages, genCalls, storeUp, before, after>>
    /\ UNCHANGED <<routerVars, cleanVars, queryVars, callVars>>

\* variant: when reserve_place returned False the branch is entered again
run_agent_reserved_retry ==
    /\ tpc = "reserving"
    /\ pc[1] = "done"
    /\ LET k == kz[1]
           fac == get_facility_by_kennzahl(db, k)
       IN parts' = IF ok[1]
                   THEN Append(parts, ReserveFragment(ok[1], get(decision, "child_name", None),
                                                      FacilityName(fac, k), k))
                   ELSE parts
    /\ tpc' = IF ok[1] THEN "assemble" ELSE "branch"
    /\ UNCHANGED <<final_messages, genCalls, storeCalls, storeUp, before, after>>
    /\ UNCHANGED <<storeVars, routerVars, cleanVars, queryVars, callVars>>

\* reserve_place has returned: the sentence for ok
run_agent_reserved ==
    /\ tpc = "reserving"
    /\ pc[1] = "done"
    /\ LET k == kz[1]
           fac == get_facility_by_kennzahl(db, k)
       IN parts' = Append(parts, ReserveFragment(ok[1], get(decision, "child_name", None),
                                                 FacilityName(fac, k), k))
    /\ tpc' = "assemble"
    /\ UNCHANGED <<final_messages, genCalls, storeCalls, storeUp, before, after>>
    /\ UNCHANGED <<storeVars, routerVars, cleanVars, queryVars, callVars>>

\* a store function is about to open its connection
StoreCallNext ==
    \/ /\ tpc = "branch"
       /\ \/ /\ branch(decision) = "list"
             /\ QueryMode(get(decision, "city", None)) # "blank"
          \/ /\ branch(decision) \in {"check", "reserve"}
             /\ kennzahl_int(decision.kennzahl).ok
    \/ tpc = "reserving" /\ pc[1] \in {"call", "update"}

\* psycopg.connect raises inside a store function: nothing in run_agent
\* catches it
run_agent_store_raises ==
    /\ StoreCallNext
    /\ storeUp' = FALSE
    /\ storeCalls' = IF tpc = "branch" THEN storeCalls + 1 ELSE storeCalls
    /\ tpc' = "StoreError"
    /\ pc' = [pc EXCEPT ![1] = IF tpc = "reserving" THEN "raised" ELSE pc[1]]
    /\ UNCHANGED <<db, kz, free, ok, db0, calls, succ, resets>>
    /\ UNCHANGED <<parts, final_messages, genCalls, before, after>>
    /\ UNCHANGED <<routerVars, cleanVars, queryVars, callVars>>

\* no branch of the chain is taken
run_agent_no_action ==
    /\ tpc = "branch"
    /\ branch(decision) = "none"
    /\ tpc' = "assemble"
    /\ UNCHANGED <<parts, final_messages, genCalls, storeCalls, storeUp, before, after>>
    /\ UNCHANGED <<storeVars, routerVars, cleanVars, queryVars, callVars>>

\* final_messages = list(messages), plus one system message when there are
\* context parts
FinalMessages(msgs, ps) ==
    IF ps # <<>> THEN Append(msgs, Msg("system", [t |-> "sql_context", parts |-> ps]))
    ELSE msgs

\* variant: final_messages = messages, so the append also changes the
\* caller's list
Assemble_alias(msgs, ps) ==
    [caller |-> FinalMessages(msgs, ps), final |-> FinalMessages(msgs, ps)]

\* final_messages = list(messages) is a copy: the append leaves the
\* caller's list as it was
Assemble(msgs, ps) == [caller |-> msgs, final |-> FinalMessages(msgs, ps)]

\* the generation call returns and run_agent returns the cleaned text
run_agent_generate ==
    /\ tpc = "assemble"
    /\ final_messages' = Assemble(messages, parts).final
    /\ messages' = Assemble(messages, parts).caller
    /\ genCalls' = genCalls + 1
    /\ tpc' = "returned"
    /\ UNCHANGED <<parts, storeCalls, storeUp, before, after>>
    /\ UNCHANGED <<rpc, last_user, resp, decision, oracleCalls, oracleInput>>
    /\ UNCHANGED <<storeVars, cleanVars, queryVars, callVars>>

\* the generation call raises
run_agent_generation_raises ==
    /\ tpc = "assemble"
    /\ final_messages' = Assemble(messages, parts).final
    /\ messages' = Assemble(messages, parts).caller
    /\ genCalls' = genCalls + 1
    /\ tpc' = "GenerationError"
    /\ UNCHANGED <<parts, storeCalls, storeUp, before, after>>
    /\ UNCHANGED <<rpc, last_user, resp, decision, oracleCalls, oracleInput>>
    /\ UNCHANGED <<storeVars, cleanVars, queryVars, callVars>>

\* sidebar, before the question is entered: reset_pre_registrations(city)
sidebar_reset(city) ==
    /\ tpc = "idle"
    /\ resets = <<>>
    /\ reset_pre_registrations(city)

InitTurn ==
    /\ db \in TurnTables
    /\ db0 = db
    /\ SessionsIdle
    /\ RouterIdle
    /\ CleanIdle
    /\ QueryIdle
    /\ TurnIdle
    /\ log = <<>>

NextTurn ==
    \/ \E h \in TurnHistories, d \in Decisions : run_agent_decide(h, d)
    \/ \E h \in TurnHistories : run_agent_oracle_raises(h)
    \/ run_agent_list
    \/ run_agent_int_raises
    \/ run_agent_check
    \/ run_agent_reserve
    \/ reserve_place_check(1)
    \/ reserve_place_update(1)
    \/ run_agent_reserved
    \/ run_agent_store_raises
    \/ run_agent_no_action
    \/ run_agent_generate
    \/ run_agent_generation_raises
    \/ \E c \in {None, S(linz)} : sidebar_reset(c)

SpecTurn == InitTurn /\ [][NextTurn]_vars

\* ------------------------------------------------------------------------
\* Sidebar: search for facilities, then the reset button under the list
\* ------------------------------------------------------------------------
\* the searched table with pre-registrations on every facility
SidebarTable ==
    [k \in DOMAIN QueryTable |-> [QueryTable[k] EXCEPT !.pre_registrations = I(1)]]

\* what the user types into the search field
SidebarQueries == Queries \cup {S(linz), S(<<" ">> \o Wels), S(Enns)}

\* if facilities: if st.button(...): reset_pre_registrations(city), with
\* city the trimmed search text
sidebar_reset_listed ==
    /\ mode # "idle"
    /\ rows # <<>>
    /\ resets = <<>>
    /\ reset_pre_registrations(S(Trimmed(query)))

InitSidebar ==
    /\ db = SidebarTable
    /\ db0 = db
    /\ SessionsIdle
    /\ RouterIdle
    /\ CleanIdle
    /\ TurnIdle
    /\ log = <<>>
    /\ query \in SidebarQueries
    /\ mode = "idle"
    /\ rows = <<>>

NextSidebar ==
    \/ Search
    \/ sidebar_reset_listed

SpecSidebar == InitSidebar /\ [][NextSidebar]_vars

\* ------------------------------------------------------------------------
\* reserve_place called again and again by one session, with the names
\* and the address the caller passes
\* ------------------------------------------------------------------------
\* parent_name, parent_email, child_name: the sidebar form passes what was
\* typed, also nothing
ContactArgs ==
    {[parent_name |-> S(<<"P">>), parent_email |-> S(<<"m">>), child_name |-> S(<<"c">>)],
     [parent_name |-> S(<<"Q">>), parent_email |-> S(<<"m">>), child_name |-> S(<<"d">>)],
     [parent_name |-> S(<<>>), parent_email |-> S(<<>>), child_name |-> S(<<>>)]}

\* variant: a reservation already stored for the same names is refused
repeat_call_dedup(k, a) ==
    /\ pc[1] = "idle"
    /\ calls < MaxCalls
    /\ IF \E i \in 1..Len(log) : log[i].kennzahl = k /\ log[i].args = a /\ log[i].ok
       THEN /\ pc' = [pc EXCEPT ![1] = "done"]
            /\ ok' = [ok EXCEPT ![1] = FALSE]
       ELSE /\ pc' = [pc EXCEPT ![1] = "call"]
            /\ UNCHANGED ok
    /\ kz' = [kz EXCEPT ![1] = k]
    /\ calls' = calls + 1
    /\ log' = Append(log, [kennzahl |-> k, args |-> a, before |-> db,
                           done |-> FALSE, ok |-> FALSE, after |-> db])
    /\ UNCHANGED <<db, free, db0, succ, resets>>
    /\ UNCHANGED <<routerVars, cleanVars, queryVars, turnVars>>

\* reserve_place(kennzahl, parent_name, parent_email, child_name) is entered
repeat_call(k, a) ==
    /\ pc[1] = "idle"
    /\ calls < MaxCalls
    /\ pc' = [pc EXCEPT ![1] = "call"]
    /\ UNCHANGED ok
    /\ kz' = [kz EXCEPT ![1] = k]
    /\ calls' = calls + 1
    /\ log' = Append(log, [kennzahl |-> k, args |-> a, before |-> db,
                           done |-> FALSE, ok |-> FALSE, after |-> db])
    /\ UNCHANGED <<db, free, db0, succ, resets>>
    /\ UNCHANGED <<routerVars, cleanVars, queryVars, turnVars>>

\* reserve_place has returned to its caller
repeat_return ==
    /\ pc[1] = "done"
    /\ log # <<>>
    /\ ~log[Len(log)].done
    /\ log' = [log EXCEPT ![Len(log)] =
                  [@ EXCEPT !.done = TRUE, !.ok = ok[1], !.after = db]]
    /\ pc' = [pc EXCEPT ![1] = "idle"]
    /\ kz' = [kz EXCEPT ![1] = UnknownKennzahl]
    /\ free' = [free EXCEPT ![1] = None]
    /\ ok' = [ok EXCEPT ![1] = FALSE]
    /\ UNCHANGED <<db, db0, calls, succ, resets>>
    /\ UNCHANGED <<routerVars, cleanVars, queryVars, turnVars>>

InitRepeat ==
    /\ db \in InitTables
    /\ db0 = db
    /\ SessionsIdle
    /\ RouterIdle
    /\ CleanIdle
    /\ QueryIdle
    /\ TurnIdle
    /\ log = <<>>

NextRepeat ==
    \/ \E k \in KennzahlArgs, a \in ContactArgs : repeat_call(k, a)
    \/ reserve_place_check(1)
    \/ reserve_place_update(1)
    \/ repeat_return

SpecRepeat == InitRepeat /\ [][NextRepeat]_vars

\* ------------------------------------------------------------------------
\* Properties of the Capacity Store
\* ------------------------------------------------------------------------
\* a ledger field read as a number: NULL counts as 0
PreOf(d, k) == IF d[k].pre_registrations = None THEN 0 ELSE d[k].pre_registrations.n

NoResetYet == resets = <<>>

\* C1: on a facility that had exactly one free place, two reserve_place
\* calls (the only calls made, in any interleaving) end with exactly one
\* True and one False, and pre_registrations has grown by exactly 1.
C1_ExactlyOneOfTwoSucceeds ==
    \A k \in Kennzahlen : \A p, q \in Procs :
        ( /\ p # q
          /\ NoResetYet
          /\ calls = 2
          /\ get_free_places(db0, k) = I(1)
          /\ pc[p] = "done" /\ pc[q] = "done"
          /\ kz[p] = k /\ kz[q] = k )
        => /\ ok[p] # ok[q]
           /\ PreOf(db, k) = PreOf(db0, k) + 1

\* C2: as long as no reset has run, the number of reserve_place calls that
\* returned True for a facility never exceeds its initial free places, and
\* capacity_estimate - current_occupancy - pre_registrations stays >= 0.
RawFree(d, k) ==
    to_int(d[k].capacity_estimate) - to_int(d[k].current_occupancy)
        - to_int(d[k].pre_registrations)

C2_NeverOverbooked ==
    NoResetYet =>
        \A k \in Kennzahlen :
            RawFree(db0, k) >= 0 =>
                /\ RawFree(db, k) >= 0
                /\ succ[k] <= get_free_places(db0, k).n

\* C3: a reserve_place call that finds free_places absent (unknown
\* Kennzahl) or 0 returns False in that step and changes no ledger field.
C3_NoFreePlaceReturnsFalse ==
    [][\A p \in Procs :
        ( /\ pc[p] = "call"
          /\ pc'[p] # "call"
          /\ \/ kz[p] \notin DOMAIN db
             \/ get_free_places(db, kz[p]) = I(0) )
        => /\ pc'[p] = "done"
           /\ ok'[p] = FALSE
           /\ db' = db]_vars

C3_Witness ==
    \E p, q \in Procs :
        /\ pc[p] = "done" /\ ~ok[p] /\ kz[p] = UnknownKennzahl /\ free[p] = None
        /\ pc[q] = "done" /\ ~ok[q] /\ kz[q] \in Kennzahlen /\ free[q] = I(0)
        /\ db = db0

\* C4: the step in which a reserve_place call returns True raises
\* pre_registrations of its facility by exactly 1 (NULL becomes 1) and
\* changes nothing else in the table.
C4_SuccessIncrementsByOne ==
    [][\A p \in Procs :
        (ok'[p] /\ ~ok[p])
        => /\ kz[p] \in DOMAIN db
           /\ db'[kz[p]].pre_registrations = I(PreOf(db, kz[p]) + 1)
           /\ db'[kz[p]].capacity_estimate = db[kz[p]].capacity_estimate
           /\ db'[kz[p]].current_occupancy = db[kz[p]].current_occupancy
           /\ db'[kz[p]].ort = db[kz[p]].ort
           /\ \A k \in DOMAIN db \ {kz[p]} : db'[k] = db[k]]_vars

C4_Witness ==
    \E p \in Procs :
        /\ pc[p] = "done" /\ ok[p] /\ kz[p] = 1
        /\ db0[1].pre_registrations = None
        /\ db[1].pre_registrations = I(1)

\* what each stored ledger value stands for: NULL and blank text are 0
LedgerMeaning ==
    {<<None, 0>>, <<S(<<>>), 0>>, <<S(<<" ">>), 0>>, <<S(<<" ", "1">>), 1>>,
     <<S(<<"1">>), 1>>} \cup {<<I(n), n>> : n \in 0..(MaxCap + MaxCalls + 1)}

Meaning(x) == (CHOOSE m \in LedgerMeaning : m[1] = x)[2]

\* C5: for a known facility get_free_places returns
\* max(capacity_estimate - current_occupancy - pre_registrations, 0), with
\* NULL and blank fields read as 0, and never a negative number.
C5_FreePlacesClamped ==
    \A p \in Procs :
        (pc[p] = "checked" /\ kz[p] \in DOMAIN db)
        => /\ free[p] # None
           /\ free[p].n >= 0
           /\ free[p].n = Max(Meaning(db[kz[p]].capacity_estimate)
                                - Meaning(db[kz[p]].current_occupancy)
                                - Meaning(db[kz[p]].pre_registrations), 0)

C5_Witness ==
    \E p \in Procs :
        /\ pc[p] = "checked" /\ kz[p] = 1 /\ free[p] = I(0)
        /\ db[1].capacity_estimate = S(<<" ">>)
        /\ db[1].current_occupancy = I(1)
        /\ db[1].pre_registrations = None

\* C6: get_free_places returns None exactly when the table has no row for
\* the Kennzahl; for an existing row it returns an integer, also when all
\* three ledger fields are NULL.
C6_NoneIffUnknown ==
    \A p \in Procs :
        pc[p] = "checked"
        => /\ (free[p] = None) <=> (kz[p] \notin DOMAIN db)
           /\ kz[p] \in DOMAIN db => free[p].t = "int"

C6_Witness ==
    \E p, q \in Procs :
        /\ pc[p] = "checked" /\ kz[p] = 1 /\ free[p] = I(0)
        /\ db[1].capacity_estimate = None
        /\ db[1].current_occupancy = None
        /\ db[1].pre_registrations = None
        /\ pc[q] = "checked" /\ kz[q] = 2 /\ 2 \notin DOMAIN db /\ free[q] = None

\* two letters that differ at most in case
CasePairs == {<<"L", "l">>, <<"I", "i">>, <<"N", "n">>, <<"Z", "z">>,
              <<"W", "w">>, <<"E", "e">>, <<"S", "s">>}

SameLetter(a, b) == a = b \/ <<a, b>> \in CasePairs \/ <<b, a>> \in CasePairs

EqualIgnoringCase(s, t) ==
    Len(s) = Len(t) /\ \A i \in 1..Len(s) : SameLetter(s[i], t[i])

\* C7: reset_pre_registrations(city) with a non-empty city leaves every
\* facility of that city (compared case-insensitively) with
\* pre_registrations = 0 and every other facility's pre_registrations as
\* it was.
C7_ResetCity ==
    [][\A c \in CityArgs :
        (Truthy(c) /\ resets' = <<c>> /\ reset_pre_registrations(c))
        => \A k \in DOMAIN db :
              IF EqualIgnoringCase(db[k].ort, c.s)
              THEN db'[k].pre_registrations = I(0)
              ELSE db'[k].pre_registrations = db[k].pre_registrations]_vars

C7_Witness ==
    /\ resets = <<S(linz)>>
    /\ succ[1] > 0
    /\ db[1].pre_registrations = I(0)
    /\ db[2].pre_registrations = I(1)

\* C8: reset_pre_registrations without a city sets pre_registrations of
\* every facility to 0; no reset changes capacity_estimate or
\* current_occupancy.
C8_ResetAll ==
    [][\A c \in CityArgs :
        (resets' = <<c>> /\ reset_pre_registrations(c))
        => /\ c = None => \A k \in DOMAIN db : db'[k].pre_registrations = I(0)
           /\ \A k \in DOMAIN db :
                /\ db'[k].capacity_estimate = db[k].capacity_estimate
                /\ db'[k].current_occupancy = db[k].current_occupancy]_vars

C8_Witness ==
    /\ resets = <<None>>
    /\ succ[1] > 0
    /\ \A k \in Kennzahlen : db[k].pre_registrations = I(0)
    /\ \A k \in Kennzahlen : db[k].capacity_estimate = db0[k].capacity_estimate

\* ------------------------------------------------------------------------
\* Properties of the Action Router
\* ------------------------------------------------------------------------
\* the text the router reads from a response, or None when it gets none
RawOf(r) ==
    IF Truthy(r.output_text) THEN r.output_text
    ELSE r.first

\* the oracle failed: the call raised, there is no or an empty text, the
\* text is neither JSON nor contains a parsable {...} part, or it is valid
\* JSON but not an object
OracleFailed(r) ==
    \/ r.fail
    \/ RawOf(r) = None
    \/ RawOf(r) = S(<<>>)
    \/ /\ ~json_loads(RawOf(r).s).ok
       /\ \/ re_search(RawOf(r).s) = None
          \/ ~json_loads(re_search(RawOf(r).s).s).ok
    \/ /\ json_loads(RawOf(r).s).ok
       /\ ~IsDict(json_loads(RawOf(r).s).val)

\* C9: decide_sql_action never raises, and on every failure of the oracle
\* it returns the no-action decision.
C9_RouterNeverRaises ==
    /\ rpc # "raised"
    /\ (rpc = "returned" /\ resp # None /\ OracleFailed(resp)) => decision = NoAction

UserPositions(msgs) == {i \in 1..Len(msgs) : msgs[i].role = "user"}

NoUserText(msgs) ==
    \/ UserPositions(msgs) = {}
    \/ msgs[MaxOf(UserPositions(msgs))].content = S(<<>>)

\* C10: with no user message in the history, or an empty most recent one,
\* decide_sql_action returns the no-action decision and the routing oracle
\* is not called.
C10_NoUserMessageNoOracle ==
    (rpc # "start" /\ NoUserText(messages))
    => /\ rpc = "returned"
       /\ decision = NoAction
       /\ oracleCalls = 0
       /\ resp = None

C10_Witness ==
    /\ rpc = "returned"
    /\ decision = NoAction
    /\ oracleCalls = 0
    /\ messages = <<Msg("user", S(<<"a">>)), Msg("user", S(<<>>))>>

\* nesting depth after the first i tokens
RECURSIVE Depth(_, _)
Depth(toks, i) ==
    IF i = 0 THEN 0
    ELSE Depth(toks, i - 1)
         + (IF toks[i] = "{" THEN 1 ELSE IF toks[i] = "}" THEN -1 ELSE 0)

\* the first balanced {...} part of a text: from the first "{" to the "}"
\* that closes it, or None
FirstBalanced(toks) ==
    LET opens == Positions(toks, "{")
    IN IF opens = {} THEN None
       ELSE LET a == MinOf(opens)
                ends == {j \in a + 1..Len(toks) :
                            toks[j] = "}" /\ Depth(SubSeq(toks, a, j), j - a + 1) = 0}
            IN IF ends = {} THEN None
               ELSE S(SubSeq(toks, a, MinOf(ends)))

\* the decision carried by a JSON object text
DecisionOf(toks) == EnsureAction(json_loads(toks).val).value

\* C11: when the oracle's text is not JSON as a whole but contains a
\* balanced {...} part, the router returns the decision of the first
\* balanced {...} part, with one object in prose as with several groups.
C11_FirstBalancedObject ==
    (/\ rpc = "returned"
     /\ resp # None
     /\ RawOf(resp) # None
     /\ ~json_loads(RawOf(resp).s).ok
     /\ FirstBalanced(RawOf(resp).s) # None
     /\ json_loads(FirstBalanced(RawOf(resp).s).s).ok)
    => decision = DecisionOf(FirstBalanced(RawOf(resp).s).s)

\* ------------------------------------------------------------------------
\* Properties of the Response Assembler
\* ------------------------------------------------------------------------
\* C16: _clean_citations is idempotent: cleaning a cleaned text returns it
\* unchanged.
C16_CleanIdempotent ==
    passes = 2 => cleaned = _clean_citations(text)

\* ------------------------------------------------------------------------
\* Properties of the facility search
\* ------------------------------------------------------------------------
Digit(c) == c \in {"0", "1", "2", "3", "4", "5", "6", "7", "8", "9"}

OnlyDigits(t) == t # <<>> /\ \A i \in 1..Len(t) : Digit(t[i])

\* t occurs in s, letters compared without regard to case
ContainsIgnoringCase(s, t) ==
    \E i \in 0..(Len(s) - Len(t)) : EqualIgnoringCase(SubSeq(s, i + 1, i + Len(t)), t)

CityMatches(d, t) == {k \in DOMAIN d : ContainsIgnoringCase(d[k].ort, t)}

RowSet(r) == {r[i] : i \in 1..Len(r)}

\* the rows are distinct and in the order of city, then name
InCityNameOrder(d, r) ==
    \A i, j \in 1..Len(r) : i < j =>
        /\ r[i] # r[j]
        /\ \/ TextLess(d[r[i]].ort, d[r[j]].ort)
           \/ d[r[i]].ort = d[r[j]].ort /\ TextLess(d[r[i]].name, d[r[j]].name)

\* C17: a query is a postal-code query exactly when, trimmed, it consists
\* of digits only; then the result is exactly the facilities with that
\* postal code, by city then name; every other non-blank query runs the
\* search by city.
C17_PostalCodeQuery ==
    (mode # "idle" /\ Trimmed(query) # <<>>)
    => /\ (mode = "plz") <=> OnlyDigits(Trimmed(query))
       /\ ~OnlyDigits(Trimmed(query)) => mode = "ort"
       /\ OnlyDigits(Trimmed(query)) =>
            /\ RowSet(rows) = {k \in DOMAIN db : int_to_text(db[k].plz.n) = Trimmed(query)}
            /\ InCityNameOrder(db, rows)

\* a query the search does not take for a postal code
NotNumeric(t) == \E i \in 1..Len(t) : ~Digit(t[i]) /\ t[i] # " "

\* C18: for a non-numeric, non-blank query the result is exactly the
\* facilities whose city equals the query or contains it, without regard
\* to case, by city then name.
C18_CityQuery ==
    (mode # "idle" /\ NotNumeric(Trimmed(query)))
    => /\ RowSet(rows) = CityMatches(db, Trimmed(query))
       /\ InCityNameOrder(db, rows)
\* ------------------------------------------------------------------------
\* Properties of the reservation test
\* ------------------------------------------------------------------------
\* C19: run alone, reading the free places, calling reserve_place and
\* reading the free places again gives one place less when reserve_place
\* returned True and the same number when it returned False.
C19_ReserveVisibleToNextRead ==
    tpc = "end" =>
        IF ok[1] THEN before # None /\ after # None /\ after.n = before.n - 1
        ELSE after = before

C19_Witness ==
    /\ tpc = "end"
    /\ ok[1]
    /\ before = I(MaxCap)
    /\ after = I(MaxCap - 1)
\* ------------------------------------------------------------------------
\* Properties of the Action Executor
\* ------------------------------------------------------------------------
\* the decision names the slot and gives it a value
HasSlot(d, key) == key \in DOMAIN d /\ d[key] # None /\ d[key] # S(<<>>)

ActionOf(d) == IF "action" \in DOMAIN d THEN d.action ELSE "absent"

ListDecision(d) == ActionOf(d) = "list_facilities" /\ HasSlot(d, "city")

CheckDecision(d) == ActionOf(d) = "check_free_places" /\ HasSlot(d, "kennzahl")

ReserveDecision(d) ==
    /\ ActionOf(d) = "reserve_place"
    /\ \A key \in {"kennzahl", "parent_name", "parent_email", "child_name"} :
          HasSlot(d, key)

\* run_agent has taken its decision and is past the action step
TurnStarted == tpc \notin {"idle", "OracleError"}

ActionStepOver == TurnStarted /\ tpc \notin {"branch", "reserving"}

\* C12: for a decision that is none of list-facilities with a city,
\* check-free-places with a facility id, and reserve-place with facility id,
\* parent name, parent email and child name, run_agent calls no store
\* function, leaves the table as it was and gives the generation step the
\* history without a context fragment.
C12_NoActionNoFragment ==
    (/\ TurnStarted
     /\ ~ListDecision(decision)
     /\ ~CheckDecision(decision)
     /\ ~ReserveDecision(decision))
    => /\ storeCalls = 0
       /\ parts = <<>>
       /\ db = db0
       /\ pc[1] = "idle"
       /\ tpc \in {"branch", "assemble", "returned", "GenerationError"}
       /\ tpc \in {"returned", "GenerationError"}
            => genCalls = 1 /\ final_messages = messages

C12_Witness ==
    /\ tpc = "returned"
    /\ ActionOf(decision) = "reserve_place"
    /\ HasSlot(decision, "kennzahl")
    /\ HasSlot(decision, "parent_name")
    /\ ~HasSlot(decision, "child_name")
    /\ final_messages = messages

\* the facility id of the decision, as a number
IdOf(d) == IF IsStr(d.kennzahl) THEN int(strip(d.kennzahl.s)) ELSE d.kennzahl.n

ValidId(d) == IsStr(d.kennzahl) => OnlyDigits(strip(d.kennzahl.s))

\* C13: for a reserve-place decision with facility id and the three contact
\* fields, on a facility with no free place the fragment is the "could not
\* be stored" sentence and the table stays as it was; when reserve_place
\* returned True the fragment is the confirmation with the disclaimer.
C13_ReserveOutcomeFragment ==
    (ActionStepOver /\ ReserveDecision(decision) /\ ValidId(decision) /\ storeUp)
    => /\ Len(parts) = 1
       /\ get_free_places(db0, IdOf(decision)) = I(0)
            => parts[1].kind = "not_stored" /\ db = db0
       /\ ok[1] => /\ parts[1].kind = "stored"
                   /\ parts[1].disclaimer
                   /\ parts[1].child = decision.child_name
                   /\ parts[1].kennzahl = IdOf(decision)
       /\ ~ok[1] => parts[1].kind = "not_stored" /\ db = db0

C13_Witness ==
    /\ tpc = "returned"
    /\ ReserveDecision(decision)
    /\ decision.kennzahl = I(2)
    /\ get_free_places(db0, 2) = I(0)
    /\ parts[1].kind = "not_stored"
    /\ db = db0

\* C14: for a check-free-places or reserve-place decision whose facility id
\* is not convertible to an integer or is not in the table, the fragment is
\* produced with the fallback label of that id and the turn goes on to the
\* generation step.
C14_UnknownIdFallback ==
    (/\ ActionStepOver
     /\ storeUp
     /\ CheckDecision(decision) \/ ReserveDecision(decision)
     /\ ~ValidId(decision) \/ IdOf(decision) \notin DOMAIN db)
    => /\ tpc \in {"assemble", "returned", "GenerationError"}
       /\ Len(parts) = 1
       /\ parts[1].name = [t |-> "fallback", kennzahl |-> decision.kennzahl]

\* C15: when a store call of the turn raises, no fragment is produced, the
\* generation step is still called with the history as it was, and no
\* exception leaves run_agent.
C15_StoreFailureAbsorbed ==
    ~storeUp
    => /\ tpc \in {"assemble", "returned"}
       /\ parts = <<>>
       /\ tpc = "returned" => genCalls = 1 /\ final_messages = messages

\* ------------------------------------------------------------------------
\* Frame of the ledger fields
\* ------------------------------------------------------------------------
Ledger(d) ==
    [k \in DOMAIN d |->
        <<d[k].capacity_estimate, d[k].current_occupancy, d[k].pre_registrations>>]

\* C20: a step changes ledger fields only when it is the UPDATE of
\* reserve_place or reset_pre_registrations; the steps of a turn with a
\* list-facilities or check-free-places decision (the search, the facility
\* lookup, the free-places read, the routing) leave them unchanged.
C20_LedgerFrame ==
    [][/\ Ledger(db') # Ledger(db)
            => \/ \E p \in Procs : reserve_place_update(p)
               \/ \E c \in CityArgs : reset_pre_registrations(c)
       /\ (TurnStarted /\ ActionOf(decision) \in {"list_facilities", "check_free_places"})
            => Ledger(db') = Ledger(db)]_vars

C20_Witness ==
    /\ tpc = "returned"
    /\ CheckDecision(decision)
    /\ storeCalls = 2
    /\ Len(parts) = 1
    /\ db = db0
\* ------------------------------------------------------------------------
\* Properties of a chat turn
\* ------------------------------------------------------------------------
RECURSIVE SumPre(_, _)
SumPre(d, ks) ==
    IF ks = {} THEN 0
    ELSE LET k == CHOOSE x \in ks : TRUE
         IN PreOf(d, k) + SumPre(d, ks \ {k})

\* the steps of a turn come in the order classify, act, generate
TurnOrder ==
    /\ storeCalls' > storeCalls => oracleCalls >= 1 /\ genCalls = 0 /\ decision # None
    /\ calls' > calls => oracleCalls >= 1 /\ genCalls = 0 /\ calls = 0
    /\ db' # db /\ tpc # "idle" => genCalls = 0 /\ oracleCalls >= 1
    /\ genCalls' > genCalls
         => /\ genCalls = 0
            /\ oracleCalls = 1
            /\ pc[1] \notin {"call", "update"}
            /\ tpc = "assemble"

Generated == tpc \in {"returned", "GenerationError"}

\* C23: the generation step is given the caller's history followed by
\* exactly one system message holding the fragments when the action
\* produced one, and exactly the caller's history when it produced none;
\* no step of the turn changes the caller's list.
C23_AugmentedHistory ==
    [][/\ TurnStarted => messages' = messages
       /\ Generated' =>
            IF parts' # <<>>
            THEN /\ Len(final_messages') = Len(messages) + 1
                 /\ SubSeq(final_messages', 1, Len(messages)) = messages
                 /\ final_messages'[Len(messages) + 1].role = "system"
                 /\ final_messages'[Len(messages) + 1].content.parts = parts'
            ELSE final_messages' = messages]_vars

C23_Witness ==
    /\ tpc = "returned"
    /\ ListDecision(decision)
    /\ Len(parts) = 1
    /\ Len(messages) = 3
    /\ Len(final_messages) = 4
    /\ final_messages[4].role = "system"

\* ------------------------------------------------------------------------
\* What the routing oracle is shown
\* ------------------------------------------------------------------------
\* C24: the input given to the routing oracle is the fixed prompt and the
\* content of the most recent user message, and nothing else of the
\* history, so two histories with the same last user message give the
\* same input, whatever else they hold before or after it.
C24_OracleSeesLastUserOnly ==
    oracleCalls >= 1
    => /\ UserPositions(messages) # {}
       /\ oracleInput =
            <<Msg("system", system_prompt),
              Msg("user", messages[MaxOf(UserPositions(messages))].content)>>

C24_Witness ==
    /\ oracleCalls = 1
    /\ messages = <<Msg("user", S(<<"b">>)), Msg("assistant", S(<<"a">>))>>
    /\ oracleInput = <<Msg("system", system_prompt), Msg("user", S(<<"b">>))>>

\* ------------------------------------------------------------------------
\* What a cleaned text is free of
\* ------------------------------------------------------------------------
HasFilecite(toks) ==
    \E i \in 1..(Len(toks) - 1) : toks[i] = "file" /\ toks[i + 1] = "cite"

HasTurnMarker(toks) ==
    \E i \in 1..Len(toks) : TurnMarkerLen(SubSeq(toks, i, Len(toks))) > 0

HasBadChar(toks) == \E i \in 1..Len(toks) : toks[i] = "P"

HasSpaceRun(toks) ==
    \E i \in 1..(Len(toks) - 1) : toks[i] = " " /\ toks[i + 1] = " "

HasTrailingSpace(toks) ==
    \E i \in 1..Len(toks) :
        toks[i] = " " /\ (i = Len(toks) \/ toks[i + 1] = "\n")

\* C25: the text _clean_citations returns holds no citation marker
\* (filecite..., turn<digits>file<digits>), no private-use or replacement
\* character, no two spaces in a row and no line that ends in white space.
C25_CleanedTextIsClean ==
    passes >= 1
    => /\ ~HasFilecite(cleaned)
       /\ ~HasTurnMarker(cleaned)
       /\ ~HasBadChar(cleaned)
       /\ ~HasSpaceRun(cleaned)
       /\ ~HasTrailingSpace(cleaned)

\* ------------------------------------------------------------------------
\* Properties of the sidebar
\* ------------------------------------------------------------------------
\* C26: after a search that listed facilities and a press of the reset
\* button, every listed facility has pre_registrations = 0, whether the
\* list was matched by the exact city, by a part of the city or by the
\* postal code.
C26_ResetCoversListed ==
    (resets # <<>> /\ rows # <<>>)
    => \A k \in RowSet(rows) : db[k].pre_registrations = I(0)

\* ------------------------------------------------------------------------
\* reserve_place and the names it is given
\* ------------------------------------------------------------------------
\* what a call does, told from the facility id and the table alone
FreeBefore(e) == get_free_places(e.before, e.kennzahl)

HadFreePlace(e) == FreeBefore(e) # None /\ FreeBefore(e).n >= 1

\* C27: what reserve_place returns and what it does to the table follow
\* from the facility id and the table alone: True and one pre-registration
\* more when a place was free, False and no change otherwise, whatever
\* names and address are passed; calls that agree in everything but these
\* end alike, and a repeated identical reservation succeeds and counts
\* again while places remain.
C27_ContactArgsIgnored ==
    /\ \A i \in 1..Len(log) : log[i].done =>
          /\ log[i].ok = HadFreePlace(log[i])
          /\ log[i].after = IF HadFreePlace(log[i])
                            THEN [log[i].before EXCEPT ![log[i].kennzahl].pre_registrations
                                      = I(PreOf(log[i].before, log[i].kennzahl) + 1)]
                            ELSE log[i].before
    /\ \A i, j \in 1..Len(log) :
          (/\ log[i].done /\ log[j].done
           /\ log[i].kennzahl = log[j].kennzahl
           /\ log[i].before = log[j].before)
          => log[i].ok = log[j].ok /\ log[i].after = log[j].after

C27_Witness ==
    /\ Len(log) = 2
    /\ log[1].done /\ log[2].done
    /\ log[1].kennzahl = 1 /\ log[2].kennzahl = 1
    /\ log[1].args = log[2].args
    /\ log[1].ok /\ log[2].ok
    /\ PreOf(db, 1) = PreOf(db0, 1) + 2

\* ------------------------------------------------------------------------
\* Further properties of the Capacity Store
\* ------------------------------------------------------------------------
\* C28: reset_pre_registrations with the empty text as city does what the
\* call without a city does: pre_registrations of every facility is 0
\* afterwards.
C28_ResetEmptyCity ==
    [][(resets' = <<S(<<>>)>> /\ reset_pre_registrations(S(<<>>)))
       => /\ db' = ResetRows(db, None)
          /\ \A k \in DOMAIN db : db'[k].pre_registrations = I(0)]_vars

C28_Witness ==
    /\ resets = <<S(<<>>)>>
    /\ succ[1] > 0
    /\ \A k \in Kennzahlen : db[k].pre_registrations = I(0)
    /\ db0[2].pre_registrations = I(1)

\* C29: in every interleaving each step leaves pre_registrations of a
\* facility as it was, makes it one more, or makes it 0; it is never
\* negative and never made smaller in another way than by being set to 0.
C29_PreStepsByOneOrToZero ==
    [][db' # db =>
        \A k \in DOMAIN db :
            /\ DOMAIN db' = DOMAIN db
            /\ PreOf(db', k) >= 0
            /\ \/ db'[k].pre_registrations = db[k].pre_registrations
               \/ PreOf(db', k) = PreOf(db, k) + 1
               \/ db'[k].pre_registrations = I(0)]_vars

C29_Witness ==
    /\ PreOf(db, 1) = 1
    /\ succ[1] = MaxCalls
    /\ resets # <<>>

\* C30: with calls taking their steps fairly, every reserve_place call
\* ends with True or False; and with no other writer, once a call on a
\* facility that had a free place has ended, a call on that facility has
\* returned True.
C30_CallsEndAndOneSucceeds ==
    /\ \A p \in Procs : (pc[p] = "call") ~> (pc[p] = "done" /\ ok[p] \in BOOLEAN)
    /\ [](\A p \in Procs :
            (/\ pc[p] = "done"
             /\ kz[p] \in DOMAIN db0
             /\ get_free_places(db0, kz[p]).n >= 1)
            => succ[kz[p]] >= 1)

C30_Witness ==
    /\ pc[1] = "done" /\ pc[2] = "done"
    /\ kz[1] = 1 /\ kz[2] = 1
    /\ get_free_places(db0, 1) = I(1)
    /\ ~ok[1] /\ ok[2]
====
